---- MODULE Spec2Model ----
(***************************************************************************)
(* Model of netlify/functions/techtasks-scheduler.js: the scheduled        *)
(* handler that scrolls the tech-task listing, trims it at the first       *)
(* expired deadline, filters the extracted records against the persisted   *)
(* seen set and posts each eligible record to Telegram.                    *)
(*                                                                         *)
(* Text is modelled as a sequence of one-character tokens.  The Cyrillic   *)
(* letters of the due marker are written "de" and "o" (lower case) and     *)
(* "DE" and "O" (upper case).  Instants are minutes since 1970-01-01T00:00 *)
(* UTC (the code's milliseconds divided by 60000).                         *)
(***************************************************************************)
EXTENDS Integers, Sequences, FiniteSets, TLC

\* ---------------------------------------------------------------- bounds
\* Most cards the listing ever renders during one run.
MaxCards == 2
\* Most runs of handler in one behaviour.
MaxRuns == 2

\* ---------------------------------------------------------- configuration
\* process.env.MAX_SCROLL_ROUNDS (the deployment's value; the default is 60).
MAX_SCROLL_ROUNDS == 5
\* process.env.IDLE_AFTER_NO_GROWTH_ROUNDS (default).
IDLE_AFTER_NO_GROWTH_ROUNDS == 3

\* JavaScript null where the other values are numbers (a parsed deadline, the
\* stop boundary): a number no instant and no index equals.
NULL == 0 - 1

\* ------------------------------------------------------------------ text
Digits == {"0", "1", "2", "3", "4", "5", "6", "7", "8", "9"}

\* \s of the regular expressions and of String.prototype.trim.
IsSpace(c) == c \in {" ", "\t", "\n"}

\* \d of the regular expression.
IsDigit(c) == c \in Digits

\* Unary plus on a one-digit token.
DigitVal(c) ==
  CASE c = "0" -> 0 [] c = "1" -> 1 [] c = "2" -> 2 [] c = "3" -> 3
    [] c = "4" -> 4 [] c = "5" -> 5 [] c = "6" -> 6 [] c = "7" -> 7
    [] c = "8" -> 8 [] c = "9" -> 9

\* +m[k] for a two-digit group starting at position p of s.
TwoDigits(s, p) == 10 * DigitVal(s[p]) + DigitVal(s[p + 1])

\* Number of leading whitespace tokens of s.
RECURSIVE LeadingSpaces(_)
LeadingSpaces(s) ==
  IF s = <<>> \/ ~IsSpace(Head(s)) THEN 0 ELSE 1 + LeadingSpaces(Tail(s))

\* Number of trailing whitespace tokens of s.
RECURSIVE TrailingSpaces(_)
TrailingSpaces(s) ==
  IF s = <<>> \/ ~IsSpace(s[Len(s)]) THEN 0
  ELSE 1 + TrailingSpaces(SubSeq(s, 1, Len(s) - 1))

\* s without its first n tokens.
Drop(s, n) == SubSeq(s, n + 1, Len(s))

\* String.prototype.trim.
Trim(s) ==
  LET t == Drop(s, LeadingSpaces(s))
  IN  SubSeq(t, 1, Len(t) - TrailingSpaces(t))

\* dateStr.replace(/^\s*<due marker>\s*/i, ""): drops leading whitespace, the
\* marker in either case and the whitespace after it; a string that does not
\* start that way is returned unchanged.
StripDueMarker(s) ==
  LET t == Drop(s, LeadingSpaces(s))
  IN  IF Len(t) >= 2 /\ t[1] \in {"de", "DE"} /\ t[2] \in {"o", "O"}
      THEN LET u == Drop(t, 2) IN Drop(u, LeadingSpaces(u))
      ELSE s

\* clean.match(/^(\d{2})\.(\d{2})\.(\d{2})$/) is not null.
MatchesDdMmYy(s) ==
  /\ Len(s) = 8
  /\ \A p \in {1, 2, 4, 5, 7, 8} : IsDigit(s[p])
  /\ s[3] = "." /\ s[6] = "."

\* ----------------------------------------------------------------- dates
MinutesPerDay == 1440

\* Days from 1970-01-01 to the first day of month m (1..12) of year y, in the
\* proleptic Gregorian calendar of Date.UTC.
DaysFromCivil(y, m) ==
  LET yy  == IF m <= 2 THEN y - 1 ELSE y
      era == yy \div 400
      yoe == yy - era * 400
      mp  == IF m > 2 THEN m - 3 ELSE m + 9
      doy == (153 * mp + 2) \div 5
      doe == yoe * 365 + yoe \div 4 - yoe \div 100 + doy
  IN  era * 146097 + doe - 719468

\* Date.UTC(y, m0, d, 0, 0, 0) in minutes; m0 is the zero-based month.  A day
\* beyond the month's length carries into the next month, as in JavaScript.
DateUTC(y, m0, d) == (DaysFromCivil(y, m0 + 1) + d - 1) * MinutesPerDay

\* getUTCFullYear / getUTCMonth / getUTCDate of the instant t (minutes).
CivilFromMinutes(t) ==
  LET z   == t \div MinutesPerDay + 719468
      era == z \div 146097
      doe == z - era * 146097
      yoe == (doe - doe \div 1460 + doe \div 36524 - doe \div 146096) \div 365
      doy == doe - (365 * yoe + yoe \div 4 - yoe \div 100)
      mp  == (5 * doy + 2) \div 153
      d   == doy - (153 * mp + 2) \div 5 + 1
      m   == IF mp < 10 THEN mp + 3 ELSE mp - 9
      y   == yoe + era * 400 + (IF m <= 2 THEN 1 ELSE 0)
  IN  [y |-> y, m0 |-> m - 1, d |-> d]

\* parseDdMmYyToUTC: the deadline instant, or NULL.
parseDdMmYyToUTC(dateStr) ==
  IF dateStr = <<>> THEN NULL
  ELSE LET clean == Trim(StripDueMarker(dateStr))
       IN  IF ~MatchesDdMmYy(clean) THEN NULL
           ELSE LET d  == TwoDigits(clean, 1)
                    mo == TwoDigits(clean, 4)
                    y  == TwoDigits(clean, 7)
                IN  IF d < 1 \/ d > 31 \/ mo < 1 \/ mo > 12 THEN NULL
                    ELSE DateUTC(y + (IF y < 70 THEN 2000 ELSE 1900), mo - 1, d)

\* The UTC+5 offset in minutes (5 * 60 * 60 * 1000 ms).
OffsetMin == 300

\* A variant of todayStartUTC_Almaty that takes the calendar date of the clock
\* reading itself, not of the reading shifted by the offset.
todayStartUTC_Unshifted(now) ==
  LET c == CivilFromMinutes(now)
  IN  DateUTC(c.y, c.m0, c.d) - OffsetMin

\* todayStartUTC_Almaty with the clock reading now.
todayStartUTC_Almaty(now) ==
  LET c == CivilFromMinutes(now + OffsetMin)
  IN  DateUTC(c.y, c.m0, c.d) - OffsetMin

\* isExpiredByAlmaty(deadlineUTC) with the clock reading now.
isExpiredByAlmaty(deadlineUTC, now) == deadlineUTC < todayStartUTC_Almaty(now)

\* ------------------------------------------------------------ the listing
\* Deadline texts as the listing shows them: "<due> 21.08.26", "21.08.25",
\* "20.08.25" and an empty deadline.
TxtFuture == <<"de", "o", " ", "2", "1", ".", "0", "8", ".", "2", "6">>
TxtToday  == <<"2", "1", ".", "0", "8", ".", "2", "5">>
TxtPast   == <<"2", "0", ".", "0", "8", ".", "2", "5">>
TxtEmpty  == <<>>

\* Card links after extraction: two task URLs and the empty link of a card
\* without href.
NoLink == ""
Links == {"a", "b"}

\* The cards the listing may render.  A link may occur on more than one card.
Cards ==
  { [link |-> "a", deadline |-> TxtFuture],
    [link |-> "b", deadline |-> TxtToday],
    [link |-> "a", deadline |-> TxtPast],
    [link |-> "b", deadline |-> TxtEmpty],
    [link |-> NoLink, deadline |-> TxtFuture] }

\* Sequences of at most n cards.
CardSeqs(n) == UNION { [1..m -> Cards] : m \in 0..n }

\* Clock readings: 2025-08-21T18:59Z, which is 23:59 on the 21st at UTC+5.
Instants == { DateUTC(2025, 7, 21) + 18 * 60 + 59 }

\* ----------------------------------------------------------------- state
\* The invocations of handler.
Procs == {1, 2}

VARIABLES
  ORDER_NEWEST_FIRST, \* process.env.ORDER_NEWEST_FIRST, read once at module load
  run,              \* run[r]: the locals of invocation r of handler and its position
  store,            \* the blob "seen.json": [isArray, arr]
  now,              \* the clock
  runsStarted,      \* number of invocations so far
  deliveredEarlier, \* links delivered by invocations that have returned
  call,             \* the latest call of a helper exercised on its own, with its value
  overlapped        \* two invocations have both read the store before either wrote it

vars == <<ORDER_NEWEST_FIRST, run, store, now, runsStarted, deliveredEarlier, call,
          overlapped>>

\* No helper has been called on its own.
NoCall == [fn |-> "none"]

\* The result of an invocation that has not returned.
NoResult == [statusCode |-> 0, ok |-> FALSE, kind |-> "none", posted |-> 0]
\* handler's promise rejected: no result object at all.
Rejected == [statusCode |-> 0, ok |-> FALSE, kind |-> "rejected", posted |-> 0]
\* { statusCode: 200, body: { ok: true, message: "No new, valid (non-expired) tasks." } }
ResultNoNew == [statusCode |-> 200, ok |-> TRUE, kind |-> "message", posted |-> 0]
\* { statusCode: 200, body: { ok: true, posted } }
ResultPosted(n) == [statusCode |-> 200, ok |-> TRUE, kind |-> "posted", posted |-> n]
\* { statusCode: 500, body: { ok: false, error: e.message } }
ResultFailure == [statusCode |-> 500, ok |-> FALSE, kind |-> "error", posted |-> 0]

\* The locals of an invocation before it starts.
FreshRun ==
  [ pc |-> "idle",
    browser |-> "none",       \* "none", "open", "closed"
    closeCalls |-> 0,         \* calls of browser.close
    page |-> <<>>,            \* the rendered cards, in DOM order
    i |-> 0, lastCount |-> 0, noGrowthRounds |-> 0, lastExamined |-> 0,
    rounds |-> 0,             \* history: rounds of the scroll loop begun
    prevCount |-> 0,          \* history: the count the previous round read (0 before any)
    quietRounds |-> 0,        \* history: the latest rounds in a row whose count did not grow
    examinedBefore |-> {},    \* history: DOM positions examined before the latest round
    slice |-> <<>>,           \* history: DOM positions the latest round examined
    stopAtCount |-> NULL,
    stop |-> "none",          \* how the scroll loop ended: "fence", "idle", "maxRounds"
    items |-> <<>>,
    loaded |-> FALSE,         \* readSeenSet has returned
    loadedSet |-> <<>>,       \* the Set it returned, in insertion order
    seen |-> <<>>,            \* the Set seen, in insertion order
    filtered |-> <<>>,
    k |-> 1,                  \* position of the delivery loop in filtered
    posted |-> 0,
    attempts |-> <<>>,        \* the calls of postToTelegram: [item, ok, slept]
    keptInvalid |-> FALSE,    \* the items kept held an unparsable deadline
    written |-> FALSE,        \* writeSeenSet was called
    failedAt |-> "none",      \* the step that threw
    result |-> NoResult ]

Init ==
  /\ ORDER_NEWEST_FIRST \in BOOLEAN
  /\ run = [r \in Procs |-> FreshRun]
  /\ store = [isArray |-> FALSE, arr |-> <<>>]
  /\ now \in Instants
  /\ runsStarted = 0
  /\ deliveredEarlier = {}
  /\ call = NoCall
  /\ overlapped = FALSE

\* ------------------------------------------------------- pure parts of handler
\* new Set(arr): the distinct elements of arr in order of first occurrence.
RECURSIVE SetFromArray(_)
SetFromArray(arr) ==
  IF arr = <<>> THEN <<>>
  ELSE LET init == SetFromArray(SubSeq(arr, 1, Len(arr) - 1))
           x    == arr[Len(arr)]
       IN  IF \E j \in 1..Len(init) : init[j] = x THEN init ELSE Append(init, x)

\* seenSet.has(x)
Has(seenSet, x) == \E j \in 1..Len(seenSet) : seenSet[j] = x

\* seenSet.add(x)
Add(seenSet, x) == IF Has(seenSet, x) THEN seenSet ELSE Append(seenSet, x)

\* The elements of a Set or array.
Elems(s) == { s[j] : j \in 1..Len(s) }

\* A variant of readSeenSet that starts every invocation from an empty Set.
readSeenSetFresh(blob) == SetFromArray(<<>>)

\* readSeenSet on the blob: Array.isArray(json) ? json : [], as a Set.
readSeenSet(blob) == SetFromArray(IF blob.isArray THEN blob.arr ELSE <<>>)

\* What writeSeenSet stores: JSON.stringify([...seenSet]), read back as JSON.
writeSeenSet(seenSet) == [isArray |-> TRUE, arr |-> seenSet]

\* ordered.reverse()
Reverse(s) == [j \in 1..Len(s) |-> s[Len(s) + 1 - j]]

\* The deadline texts of the listing's cards.
DeadlineTexts == { c.deadline : c \in Cards }

\* parseDdMmYyToUTC and todayStartUTC_Almaty tabulated over the texts and the
\* clock readings of the model, so that each is computed once.
ParsedDeadline == [txt \in DeadlineTexts |-> parseDdMmYyToUTC(txt)]
TodayStart == [t \in Instants |-> todayStartUTC_Almaty(t)]

\* parseDdMmYyToUTC(x.deadline) of a card or record.
DeadlineUTC(x) == ParsedDeadline[x.deadline]

\* isExpiredByAlmaty(deadlineUTC) at clock reading t.
IsExpiredAt(deadlineUTC, t) == deadlineUTC < TodayStart[t]

\* const expiredOrInvalid = !d || isExpiredByAlmaty(d), for a cursor.
ExpiredOrInvalid(cursor, t) ==
  LET d == DeadlineUTC(cursor)
  IN  d = NULL \/ IsExpiredAt(d, t)

\* The cursors one round examines: ordered.slice(start) of the rendered cards.
ExamineSlice(page, start, newestFirst) ==
  Drop(IF newestFirst THEN page ELSE Reverse(page), start)

\* The DOM positions (1-based) of the cards of ExamineSlice, in the same order.
ExaminePositions(n, start, newestFirst) ==
  Drop(IF newestFirst THEN [j \in 1..n |-> j] ELSE [j \in 1..n |-> n + 1 - j], start)

\* Position (1-based) in res of the first expired or invalid cursor; 0 if none.
FirstStop(res, t) ==
  IF \E j \in 1..Len(res) : ExpiredOrInvalid(res[j], t)
  THEN CHOOSE j \in 1..Len(res) :
         /\ ExpiredOrInvalid(res[j], t)
         /\ \A h \in 1..(j - 1) : ~ExpiredOrInvalid(res[h], t)
  ELSE 0

\* A variant of StopBoundary that forgets the cards examined by earlier rounds
\* and records the index within the round's slice.
StopBoundaryRelative(lastExamined, hit, newestFirst) ==
  IF newestFirst THEN hit - 1 ELSE NULL

\* A variant of StopBoundary that records the index under either order.
StopBoundaryAnyOrder(lastExamined, hit, newestFirst) == lastExamined + (hit - 1)

\* stopAtCount = ORDER_NEWEST_FIRST ? absoluteIndex : null, at the hit at
\* position hit (1-based) of the slice that starts at lastExamined.
StopBoundary(lastExamined, hit, newestFirst) ==
  IF newestFirst THEN lastExamined + (hit - 1) ELSE NULL

\* A variant of LoopContinues that admits one round more.
LoopContinuesInclusive(i) == i <= MAX_SCROLL_ROUNDS

\* for (let i = 0; i < MAX_SCROLL_ROUNDS; i++): the test of the round loop.
LoopContinues(i) == i < MAX_SCROLL_ROUNDS

\* A variant of NoGrowthAfter that keeps the counter when the count grows.
NoGrowthAfterNoReset(count, lastCount, noGrowthRounds) ==
  IF count <= lastCount THEN noGrowthRounds + 1 ELSE noGrowthRounds

\* noGrowthRounds = count <= lastCount ? noGrowthRounds + 1 : 0
NoGrowthAfter(count, lastCount, noGrowthRounds) ==
  IF count <= lastCount THEN noGrowthRounds + 1 ELSE 0

\* A variant of KeepItems that tests the boundary for truthiness
\* (if (ORDER_NEWEST_FIRST && stopAtCount)), so that a boundary of 0 trims nothing.
KeepItemsTruthy(items, stopAtCount, newestFirst) ==
  IF newestFirst /\ stopAtCount # NULL /\ stopAtCount # 0
  THEN SubSeq(items, 1, IF stopAtCount < Len(items) THEN stopAtCount ELSE Len(items))
  ELSE items

\* if (ORDER_NEWEST_FIRST && stopAtCount !== null) items = items.slice(0, stopAtCount)
KeepItems(items, stopAtCount, newestFirst) ==
  IF newestFirst /\ stopAtCount # NULL
  THEN SubSeq(items, 1, IF stopAtCount < Len(items) THEN stopAtCount ELSE Len(items))
  ELSE items

\* The debug statement correctDateItems.filter(x => !isExpiredByAlmaty(x._deadlineUTC))
\* reads a property of each element of correctDateItems; an element is a Date
\* or null, and reading a property of null throws a TypeError.
DebugFilterThrows(items) ==
  \E j \in 1..Len(items) : DeadlineUTC(items[j]) = NULL

\* The predicate of the filter chain: link non-empty, not seen, deadline
\* parsed, deadline not expired.
Eligible(x, seenSet, t) ==
  /\ x.link # NoLink
  /\ ~Has(seenSet, x.link)
  /\ DeadlineUTC(x) # NULL
  /\ ~IsExpiredAt(DeadlineUTC(x), t)

\* const filtered = items.filter(...).map(...).filter(...).filter(...)
RECURSIVE FilterItems(_, _, _)
FilterItems(items, seenSet, t) ==
  IF items = <<>> THEN <<>>
  ELSE LET rest == FilterItems(Tail(items), seenSet, t)
       IN  IF Eligible(Head(items), seenSet, t) THEN <<Head(items)>> \o rest ELSE rest

\* A variant of AfterFilter without the early return: an empty filtered list
\* falls through the delivery loop to writeSeenSet.
AfterFilterNoEarlyReturn(filtered) == IF filtered = <<>> THEN "write" ELSE "send"

\* if (filtered.length === 0) { ...; return } at line 277, else the delivery loop.
AfterFilter(filtered) == IF filtered = <<>> THEN "closeEmpty" ELSE "send"

\* A variant of SeenAfterSend that marks the link seen before the send is
\* known to have succeeded.
SeenAfterSendAlways(seenSet, link, ok) == Add(seenSet, link)

\* The Set seen after one pass of the delivery loop's try block.
SeenAfterSend(seenSet, link, ok) == IF ok THEN Add(seenSet, link) ELSE seenSet

\* A variant of PostedAfterSend that counts every attempt.
PostedAfterSendAlways(posted, ok) == posted + 1

\* posted after one pass of the delivery loop's try block.
PostedAfterSend(posted, ok) == IF ok THEN posted + 1 ELSE posted

\* Whether sleep(800) runs in the pass: it is the last statement of the try
\* block, after postToTelegram, so a send that throws skips it.
SleptAfterSend(ok) == ok

\* A variant of NextRecord in which a failed send ends the loop.
NextRecordAbortOnFailure(k, n, ok) == IF ok THEN k + 1 ELSE n + 1

\* Position of the for-of loop after the pass for filtered[k]: the catch
\* block only logs, so the loop moves to the next record either way.
NextRecord(k, n, ok) == k + 1

\* A variant of CloseCallsAfterCatch for a catch block that does not close.
CloseCallsAfterCatchNone(closeCalls) == closeCalls

\* Calls of browser.close after the catch block: try { await browser.close(); }
\* catch {} makes one more, whether it resolves or throws.
CloseCallsAfterCatch(closeCalls) == closeCalls + 1

\* A variant of CatchResult that swallows the exception and reports success.
CatchResultSwallowed == ResultPosted(0)

\* The value the catch block of handler returns.
CatchResult == ResultFailure

\* Where an exception thrown by executablePath or launch goes: both calls are
\* before the try block, so the exception leaves handler.
SetupFailureResult == Rejected

\* ---------------------------------------------------------------- actions
\* run with the locals of invocation r replaced by rec.
SetRun(r, rec) == run' = [run EXCEPT ![r] = rec]

\* The locals of scrollUntilExpiredOrEnd go out of scope when it returns or throws.
LeaveScroll(rec) ==
  [rec EXCEPT !.i = 0, !.lastCount = 0, !.noGrowthRounds = 0, !.lastExamined = 0,
              !.rounds = 0, !.prevCount = 0, !.quietRounds = 0,
              !.examinedBefore = {}, !.slice = <<>>]

\* An await inside the try block throws at the named step: control goes to
\* the catch block, which uses none of the locals of the try block.
Throw(r, step) ==
  SetRun(r, [LeaveScroll(run[r]) EXCEPT !.pc = "catch", !.failedAt = step, !.page = <<>>])

\* handler returns (or rejects with) result: its locals go out of scope.  The
\* record of what the invocation did (attempts, loadedSet, stop, stopAtCount,
\* keptInvalid, written, failedAt, closeCalls) stays.
Return(rec, result) ==
  [rec EXCEPT !.pc = "done", !.result = result, !.page = <<>>, !.items = <<>>,
              !.filtered = <<>>, !.seen = <<>>, !.k = 1, !.posted = 0]

\* The links the invocation's successful sends delivered.
DeliveredBy(me) ==
  { me.attempts[j].item.link : j \in { h \in 1..Len(me.attempts) : me.attempts[h].ok } }

\* The scheduler invokes handler.
StartRun(r) ==
  /\ run[r].pc \in {"idle", "done"}
  /\ runsStarted < MaxRuns
  /\ runsStarted' = runsStarted + 1
  /\ deliveredEarlier' = deliveredEarlier \cup DeliveredBy(run[r])
  /\ \E t \in Instants : t >= now /\ now' = t
  /\ SetRun(r, [FreshRun EXCEPT !.pc = "executablePath"])
  /\ UNCHANGED <<overlapped, call, ORDER_NEWEST_FIRST, store>>

\* const executablePath = await chromium.executablePath();
ExecutablePath(r) ==
  /\ run[r].pc = "executablePath"
  /\ \/ SetRun(r, [run[r] EXCEPT !.pc = "launch"])
     \/ SetRun(r, Return([run[r] EXCEPT !.failedAt = "executablePath"], SetupFailureResult))
  /\ UNCHANGED <<overlapped, call, ORDER_NEWEST_FIRST, store, now, runsStarted, deliveredEarlier>>

\* const browser = await puppeteer.launch({...});
Launch(r) ==
  /\ run[r].pc = "launch"
  /\ \/ SetRun(r, [run[r] EXCEPT !.pc = "goto", !.browser = "open"])
     \/ SetRun(r, Return([run[r] EXCEPT !.failedAt = "launch"], SetupFailureResult))
  /\ UNCHANGED <<overlapped, call, ORDER_NEWEST_FIRST, store, now, runsStarted, deliveredEarlier>>

\* browser.newPage(); page.goto(LIST_URL): the listing renders its first cards.
Goto(r) ==
  /\ run[r].pc = "goto"
  /\ \/ \E first \in CardSeqs(MaxCards) :
          SetRun(r, [run[r] EXCEPT !.pc = "scroll", !.page = first])
     \/ Throw(r, "goto")
  /\ UNCHANGED <<overlapped, call, ORDER_NEWEST_FIRST, store, now, runsStarted, deliveredEarlier>>

\* One round of scrollUntilExpiredOrEnd up to its break statements.
ScrollRound(r) ==
  LET me    == run[r]
      count == Len(me.page)
      ngr   == NoGrowthAfter(count, me.lastCount, me.noGrowthRounds)
      res   == ExamineSlice(me.page, me.lastExamined, ORDER_NEWEST_FIRST)
      hit   == FirstStop(res, now)
      examined == [me EXCEPT !.lastCount = count, !.noGrowthRounds = ngr,
                             !.lastExamined = me.lastExamined + Len(res),
                             !.rounds = me.rounds + 1,
                             !.prevCount = count,
                             !.quietRounds = IF count > me.prevCount THEN 0
                                             ELSE me.quietRounds + 1,
                             !.examinedBefore = me.examinedBefore \cup Elems(me.slice),
                             !.slice = ExaminePositions(count, me.lastExamined,
                                                        ORDER_NEWEST_FIRST)]
  IN  /\ me.pc = "scroll"
      /\ LoopContinues(me.i)
      /\ \/ /\ hit # 0
            /\ SetRun(r, [examined EXCEPT !.pc = "extract", !.stop = "fence",
                            !.stopAtCount = StopBoundary(me.lastExamined, hit, ORDER_NEWEST_FIRST)])
         \/ /\ hit = 0
            /\ ngr >= IDLE_AFTER_NO_GROWTH_ROUNDS
            /\ SetRun(r, [examined EXCEPT !.pc = "extract", !.stop = "idle"])
         \/ /\ hit = 0
            /\ ngr < IDLE_AFTER_NO_GROWTH_ROUNDS
            /\ SetRun(r, [examined EXCEPT !.pc = "wait"])
         \/ Throw(r, "scroll")
      /\ UNCHANGED <<overlapped, call, ORDER_NEWEST_FIRST, store, now, runsStarted, deliveredEarlier>>

\* window.scrollTo(bottom); sleep(WAIT_BETWEEN_SCROLL_MS); i++: the listing may
\* append cards meanwhile.  The loop ends when i reaches MAX_SCROLL_ROUNDS.
ScrollWait(r) ==
  LET me == run[r]
  IN  /\ me.pc = "wait"
      /\ \/ \E more \in CardSeqs(MaxCards - Len(me.page)) :
              SetRun(r, [me EXCEPT !.page = me.page \o more, !.i = me.i + 1,
                           !.pc = IF LoopContinues(me.i + 1) THEN "scroll" ELSE "extract",
                           !.stop = IF LoopContinues(me.i + 1) THEN "none" ELSE "maxRounds"])
         \/ Throw(r, "scroll")
      /\ UNCHANGED <<overlapped, call, ORDER_NEWEST_FIRST, store, now, runsStarted, deliveredEarlier>>

\* let items = await extractAllItems(page); the slice at stopAtCount.
Extract(r) ==
  LET me == run[r]
  IN  /\ me.pc = "extract"
      /\ \/ LET kept == KeepItems(me.page, me.stopAtCount, ORDER_NEWEST_FIRST)
            IN  SetRun(r, [LeaveScroll(me) EXCEPT !.pc = "read", !.items = kept,
                             !.keptInvalid = DebugFilterThrows(kept)])
         \/ Throw(r, "extract")
      /\ UNCHANGED <<overlapped, call, ORDER_NEWEST_FIRST, store, now, runsStarted, deliveredEarlier>>

\* Another invocation has called readSeenSet and has not yet called writeSeenSet:
\* it holds a snapshot of the store that it is going to write back.
OtherHoldsSnapshot(r) ==
  \E q \in Procs \ {r} : run[q].pc \in {"filter", "send", "write"}

\* const seen = await readSeenSet();
Read(r) ==
  LET me == run[r]
  IN  /\ me.pc = "read"
      /\ \/ /\ SetRun(r, [me EXCEPT !.pc = "filter", !.seen = readSeenSet(store),
                            !.loaded = TRUE, !.loadedSet = readSeenSet(store)])
            /\ overlapped' = (overlapped \/ OtherHoldsSnapshot(r))
         \/ /\ Throw(r, "read")
            /\ UNCHANGED overlapped
      /\ UNCHANGED <<call, ORDER_NEWEST_FIRST, store, now, runsStarted, deliveredEarlier>>

\* The debug statements and the filter chain, up to the test of filtered.length.
\* The page is not read again after this point.
Filter(r) ==
  LET me == run[r]
      filtered == FilterItems(me.items, me.seen, now)
  IN  /\ me.pc = "filter"
      /\ IF DebugFilterThrows(me.items)
         THEN Throw(r, "filter")
         ELSE SetRun(r, [me EXCEPT !.filtered = filtered, !.page = <<>>,
                           !.pc = AfterFilter(filtered)])
      /\ UNCHANGED <<overlapped, call, ORDER_NEWEST_FIRST, store, now, runsStarted, deliveredEarlier>>

\* if (filtered.length === 0) { await browser.close(); return {...}; }
CloseEmpty(r) ==
  LET me == run[r]
  IN  /\ me.pc = "closeEmpty"
      /\ \/ SetRun(r, Return([me EXCEPT !.browser = "closed",
                                         !.closeCalls = me.closeCalls + 1], ResultNoNew))
         \/ SetRun(r, [me EXCEPT !.pc = "catch", !.failedAt = "close",
                         !.closeCalls = me.closeCalls + 1])
      /\ UNCHANGED <<overlapped, call, ORDER_NEWEST_FIRST, store, now, runsStarted, deliveredEarlier>>

\* One pass of the delivery loop: formatForTelegram, postToTelegram (which
\* resolves or throws), and on success posted++, seen.add, sleep(800).
Send(r) ==
  LET me == run[r]
      n  == Len(me.filtered)
      item == me.filtered[me.k]
  IN  /\ me.pc = "send"
      /\ me.k <= n
      /\ \E ok \in BOOLEAN :
           SetRun(r, [me EXCEPT
             !.attempts = Append(me.attempts, [item |-> item, ok |-> ok,
                                               slept |-> SleptAfterSend(ok)]),
             !.posted = PostedAfterSend(me.posted, ok),
             !.seen = SeenAfterSend(me.seen, item.link, ok),
             !.k = NextRecord(me.k, n, ok),
             !.pc = IF NextRecord(me.k, n, ok) <= n THEN "send" ELSE "write"])
      /\ UNCHANGED <<overlapped, call, ORDER_NEWEST_FIRST, store, now, runsStarted, deliveredEarlier>>

\* await writeSeenSet(seen);
Write(r) ==
  LET me == run[r]
  IN  /\ me.pc = "write"
      /\ \/ /\ store' = writeSeenSet(me.seen)
            /\ SetRun(r, [me EXCEPT !.pc = "close", !.written = TRUE])
         \/ /\ UNCHANGED store
            /\ SetRun(r, [me EXCEPT !.pc = "catch", !.failedAt = "write", !.written = TRUE])
      /\ UNCHANGED <<overlapped, call, ORDER_NEWEST_FIRST, now, runsStarted, deliveredEarlier>>

\* await browser.close(); return { statusCode: 200, ... posted }
Close(r) ==
  LET me == run[r]
  IN  /\ me.pc = "close"
      /\ \/ SetRun(r, Return([me EXCEPT !.browser = "closed",
                                         !.closeCalls = me.closeCalls + 1], ResultPosted(me.posted)))
         \/ SetRun(r, [me EXCEPT !.pc = "catch", !.failedAt = "close",
                         !.closeCalls = me.closeCalls + 1])
      /\ UNCHANGED <<overlapped, call, ORDER_NEWEST_FIRST, store, now, runsStarted, deliveredEarlier>>

\* catch (e) { try { await browser.close(); } catch {} return { statusCode: 500, ... } }
Catch(r) ==
  LET me == run[r]
  IN  /\ me.pc = "catch"
      /\ \E closed \in BOOLEAN :
           SetRun(r, Return([me EXCEPT !.browser = IF closed THEN "closed" ELSE me.browser,
                                       !.closeCalls = CloseCallsAfterCatch(me.closeCalls)],
                            CatchResult))
      /\ UNCHANGED <<overlapped, call, ORDER_NEWEST_FIRST, store, now, runsStarted, deliveredEarlier>>

\* The steps of invocation r.
Step(r) ==
  \/ StartRun(r)
  \/ ExecutablePath(r)
  \/ Launch(r)
  \/ Goto(r)
  \/ ScrollRound(r)
  \/ ScrollWait(r)
  \/ Extract(r)
  \/ Read(r)
  \/ Filter(r)
  \/ CloseEmpty(r)
  \/ Send(r)
  \/ Write(r)
  \/ Close(r)
  \/ Catch(r)

\* At most one run at a time: the scheduler's invocations do not overlap.
Next == Step(1)

Spec == Init /\ [][Next]_vars

\* Two invocations at once.  Nothing in the program keeps a second invocation
\* from starting while the first is still running, and both use the one blob.
\* Up to line 256 an invocation touches only its own browser and locals, so the
\* two are taken from there: each has scrolled a listing without a fence, every
\* task on it rendered once, to the idle stop and holds the items extracted.
UnfencedListings ==
  { s \in CardSeqs(MaxCards) :
      /\ \A j \in 1..Len(s) : \A t \in Instants : ~ExpiredOrInvalid(s[j], t)
      /\ \A j, h \in 1..Len(s) : j # h => s[j] # s[h] }

\* The locals of an invocation that has reached line 256 with these items.
AtReadSeenSet(items) ==
  [FreshRun EXCEPT !.pc = "read", !.browser = "open", !.page = items,
                   !.items = items, !.stop = "idle"]

InitOverlap ==
  /\ ORDER_NEWEST_FIRST \in BOOLEAN
  /\ run \in [Procs -> { AtReadSeenSet(items) : items \in UnfencedListings }]
  /\ store = [isArray |-> FALSE, arr |-> <<>>]
  /\ now \in Instants
  /\ runsStarted = Cardinality(Procs)
  /\ deliveredEarlier = {}
  /\ call = NoCall
  /\ overlapped = FALSE

\* Lines 256-304 of one invocation.
StoreStep(r) ==
  \/ Read(r)
  \/ Filter(r)
  \/ CloseEmpty(r)
  \/ Send(r)
  \/ Write(r)
  \/ Close(r)
  \/ Catch(r)

\* The steps of the two invocations interleave in any order.
NextOverlap == StoreStep(1) \/ StoreStep(2)

SpecOverlap == InitOverlap /\ [][NextOverlap]_vars

\* ------------------------------------------------- the helpers on their own
\* No invocation of handler is in progress.
HandlerIdle ==
  /\ ORDER_NEWEST_FIRST = TRUE
  /\ run = [r \in Procs |-> FreshRun]
  /\ store = [isArray |-> FALSE, arr |-> <<>>]
  /\ runsStarted = 0
  /\ deliveredEarlier = {}
  /\ overlapped = FALSE

\* Hours the clock runs on from each of its starting points.
MaxClockHours == 50

\* Starting points of the clock, at 00:00 UTC: 2025-12-31, 2024-02-28 and
\* 2025-02-28, so that the readings cross a year end, a leap day and the end
\* of a common February.
ClockStarts == { DateUTC(2025, 11, 31), DateUTC(2024, 1, 28), DateUTC(2025, 1, 28) }

\* Date-only deadlines (midnight UTC) from the day before each starting point
\* to four days after it.
ExpiryDeadlines == { s + k * MinutesPerDay : s \in ClockStarts, k \in (0 - 1)..4 }

InitExpiry ==
  /\ HandlerIdle
  /\ now \in ClockStarts
  /\ call = NoCall

\* Time passes: the clock reads hh:59 and hh:00 in turn.
TickClock ==
  /\ \E s \in ClockStarts : s <= now /\ now < s + MaxClockHours * 60
  /\ now' = now + (IF now % 60 = 59 THEN 1 ELSE 59)
  /\ call' = NoCall
  /\ UNCHANGED <<overlapped, ORDER_NEWEST_FIRST, run, store, runsStarted, deliveredEarlier>>

\* isExpiredByAlmaty(deadlineUTC) is called while the clock reads now.
CallIsExpired ==
  /\ \E d \in ExpiryDeadlines :
       call' = [fn |-> "isExpiredByAlmaty", deadline |-> d, at |-> now,
                value |-> isExpiredByAlmaty(d, now)]
  /\ UNCHANGED <<overlapped, ORDER_NEWEST_FIRST, run, store, now, runsStarted, deliveredEarlier>>

NextExpiry == TickClock \/ CallIsExpired

SpecExpiry == InitExpiry /\ [][NextExpiry]_vars

\* The digit token of n (0..9).
DigitTok(n) == CHOOSE c \in Digits : DigitVal(c) = n

\* n (0..99) written with two digits.
TwoDigitText(n) == <<DigitTok(n \div 10), DigitTok(n % 10)>>

\* The parts of the deadline texts parseDdMmYyToUTC is called with: what
\* precedes the date (nothing, or the due marker in either case with
\* whitespace around it), day, month and year numbers, the two separators and
\* what follows the date.
ParsePrefixes == { <<>>, <<"de", "o", " ">>, <<"DE", "O">>, <<" ", "de", "o", " ", " ">> }
ParseDays == {0, 1, 28, 29, 30, 31, 32, 99}
ParseMonths == {0, 1, 2, 4, 12, 13}
ParseYears == {0, 24, 25, 69, 70, 99}
ParseSeparators == {".", "/"}
ParseSuffixes == { <<>>, <<"x">> }

\* A text put together from the parts is about to be parsed.
InitParse ==
  /\ HandlerIdle
  /\ now \in Instants
  /\ \E pre \in ParsePrefixes, d \in ParseDays, mo \in ParseMonths, y \in ParseYears,
        s1, s2 \in ParseSeparators, suf \in ParseSuffixes :
       call = [fn |-> "parseDdMmYyToUTC", returned |-> FALSE, d |-> d, mo |-> mo, y |-> y,
               sep1 |-> s1, sep2 |-> s2, suffix |-> suf,
               dateStr |-> pre \o TwoDigitText(d) \o <<s1>> \o TwoDigitText(mo) \o <<s2>>
                             \o TwoDigitText(y) \o suf,
               value |-> NULL]

\* parseDdMmYyToUTC(dateStr) returns.
CallParse ==
  /\ call.fn = "parseDdMmYyToUTC"
  /\ ~call.returned
  /\ call' = [call EXCEPT !.returned = TRUE, !.value = parseDdMmYyToUTC(call.dateStr)]
  /\ UNCHANGED <<overlapped, ORDER_NEWEST_FIRST, run, store, now, runsStarted, deliveredEarlier>>

NextParse == CallParse

SpecParse == InitParse /\ [][NextParse]_vars

\* escapeHtml: & < > become entities, token by token, & first.
RECURSIVE escapeHtml(_)
escapeHtml(s) ==
  IF s = <<>> THEN <<>>
  ELSE (CASE Head(s) = "&" -> <<"&", "a", "m", "p", ";">>
          [] Head(s) = "<" -> <<"&", "l", "t", ";">>
          [] Head(s) = ">" -> <<"&", "g", "t", ";">>
          [] OTHER -> <<Head(s)>>) \o escapeHtml(Tail(s))

\* The fields formatForTelegram adds, in the order of its add calls; a field's
\* name stands for its label, which holds no character escapeHtml changes.
FormatFields == <<"title", "description", "client", "deadline", "taskArea", "applications">>

\* add(label, val): val && lines.push(`<b>${label}:</b> ${escapeHtml(String(val).trim())}`).
\* A string is falsy only when it is empty.
AddLine(lines, label, val) ==
  IF val # <<>>
  THEN Append(lines, <<"<b>", label, ":</b>", " ">> \o escapeHtml(Trim(val)))
  ELSE lines

\* The array lines after the add calls for the first n fields.
RECURSIVE FormatLines(_, _)
FormatLines(item, n) ==
  IF n = 0 THEN <<>>
  ELSE AddLine(FormatLines(item, n - 1), FormatFields[n], item[FormatFields[n]])

\* lines.join("\n")
RECURSIVE JoinLines(_)
JoinLines(lines) ==
  IF lines = <<>> THEN <<>>
  ELSE IF Len(lines) = 1 THEN lines[1]
  ELSE lines[1] \o <<"\n">> \o JoinLines(Tail(lines))

\* formatForTelegram(item)
formatForTelegram(item) == JoinLines(FormatLines(item, Len(FormatFields)))

\* Field values: empty, whitespace only, plain text, text to trim and escape.
FieldValues == { <<>>, <<" ">>, <<"x">>, <<" ", "<", " ">> }

\* A record with every combination of field values is about to be formatted.
InitFormat ==
  /\ HandlerIdle
  /\ now \in Instants
  /\ \E item \in [{ FormatFields[j] : j \in 1..Len(FormatFields) } -> FieldValues] :
       call = [fn |-> "formatForTelegram", returned |-> FALSE, item |-> item,
               lines |-> <<>>, value |-> <<>>]

\* formatForTelegram(item) returns.
CallFormat ==
  /\ call.fn = "formatForTelegram"
  /\ ~call.returned
  /\ call' = [call EXCEPT !.returned = TRUE,
                          !.lines = FormatLines(call.item, Len(FormatFields)),
                          !.value = formatForTelegram(call.item)]
  /\ UNCHANGED <<overlapped, ORDER_NEWEST_FIRST, run, store, now, runsStarted, deliveredEarlier>>

NextFormat == CallFormat

SpecFormat == InitFormat /\ [][NextFormat]_vars

\* ================================================================ claims
\* The steps at which an external collaborator (the browser, the page, the
\* blob store) threw; "filter" is not among them: that step calls only
\* handler's own code.
CollaboratorSteps == {"executablePath", "launch", "goto", "scroll", "extract", "read", "write", "close"}

\* The links of the successful sends of the invocation so far.
OkLinks(me) == DeliveredBy(me)

\* The links of the sends of the invocation that threw.
FailedLinks(me) ==
  { me.attempts[j].item.link : j \in { h \in 1..Len(me.attempts) : ~me.attempts[h].ok } }

\* C1: across non-overlapping runs on one store, a link whose send succeeded
\* in a run that has returned (with success or failure) is not sent
\* successfully again by a later run.
C1_NeverSentAgain ==
  \A r \in Procs : OkLinks(run[r]) \cap deliveredEarlier = {}

\* C2: when the run reaches writeSeenSet, the set it writes is the set
\* readSeenSet returned united with exactly the links of this run's successful
\* sends; after the write the blob holds that set.  So a link none of whose
\* sends succeeded and that was not loaded is absent, and no loaded link is
\* missing.
C2_WrittenSetIsLoadedPlusSuccesses ==
  \A r \in Procs :
    LET me == run[r]
        expected == Elems(me.loadedSet) \cup OkLinks(me)
    IN  /\ me.pc = "write" => Elems(me.seen) = expected
        /\ me.pc = "close" =>
             /\ store.isArray
             /\ Elems(store.arr) = expected
             /\ \A l \in FailedLinks(me) \ (OkLinks(me) \cup Elems(me.loadedSet)) :
                  l \notin Elems(store.arr)

\* C2 witness: a write has succeeded after a run in which one send failed,
\* another succeeded, and the failed link is absent from the blob.
C2_Witness ==
  \E r \in Procs :
    /\ run[r].pc = "close"
    /\ OkLinks(run[r]) # {}
    /\ \E l \in FailedLinks(run[r]) : l \notin Elems(store.arr)

\* C3: the delivery loop attempts the records of filtered one by one in list
\* order: after k - 1 passes the attempts are exactly filtered[1..k-1], whatever
\* their outcomes, and the loop reaches writeSeenSet only when every record has
\* had its one attempt.
C3_OneAttemptPerRecordInOrder ==
  \A r \in Procs :
    LET me == run[r]
    IN  me.pc \in {"send", "write", "close"} =>
          /\ Len(me.attempts) = me.k - 1
          /\ Len(me.attempts) <= Len(me.filtered)
          /\ \A j \in 1..Len(me.attempts) : me.attempts[j].item = me.filtered[j]
          /\ me.pc \in {"write", "close"} => Len(me.attempts) = Len(me.filtered)

\* C3 witness: two records, the first send failed, the second was attempted
\* all the same and succeeded.
C3_Witness ==
  \E r \in Procs :
    /\ run[r].pc = "write"
    /\ Len(run[r].filtered) = 2
    /\ Len(run[r].attempts) = 2
    /\ ~run[r].attempts[1].ok /\ run[r].attempts[2].ok

\* C4: a record is passed to postToTelegram only if its link is non-empty,
\* not in the loaded set, its deadline parses and is not expired; and once the
\* set is loaded and the run is past (or has skipped) its delivery loop, every
\* kept record that meets the four conditions has been passed to postToTelegram.
C4_SentIffEligible ==
  \A r \in Procs :
    LET me == run[r]
    IN  /\ \A j \in 1..Len(me.attempts) : Eligible(me.attempts[j].item, me.loadedSet, now)
        /\ (me.loaded /\ me.pc \in {"write", "close", "closeEmpty", "catch"}) =>
             \A j \in 1..Len(me.items) :
               Eligible(me.items[j], me.loadedSet, now) =>
                 \E h \in 1..Len(me.attempts) : me.attempts[h].item = me.items[j]

\* C5: within one run no link is passed to postToTelegram more than once.
C5_NoLinkSentTwiceInARun ==
  \A r \in Procs :
    \A j, h \in 1..Len(run[r].attempts) :
      j # h => run[r].attempts[j].item.link # run[r].attempts[h].item.link

\* C6: a run in which writeSeenSet threw returns statusCode 500 with ok false,
\* never a success result, whatever number of sends succeeded.
C6_WriteFailureFailsRun ==
  \A r \in Procs :
    (run[r].pc = "done" /\ run[r].failedAt = "write") =>
      /\ run[r].result.statusCode = 500
      /\ run[r].result.ok = FALSE
      /\ run[r].result.kind = "error"

\* C6 witness: a run whose write threw after a successful send has returned.
C6_Witness ==
  \E r \in Procs :
    /\ run[r].pc = "done"
    /\ run[r].failedAt = "write"
    /\ OkLinks(run[r]) # {}

\* C7: a run whose kept items hold a record with an unparsable deadline, and
\* in which no collaborator threw, returns a success result and sends no
\* record with an unparsable deadline.
C7_UnparsableDeadlineNeverFails ==
  \A r \in Procs :
    (run[r].pc = "done" /\ run[r].keptInvalid /\ run[r].failedAt \notin CollaboratorSteps) =>
      /\ run[r].result.ok
      /\ \A j \in 1..Len(run[r].attempts) : DeadlineUTC(run[r].attempts[j].item) # NULL

\* C8: every run in which some step threw, the acquisition of the browser
\* included, returns the structured failure result.
C8_EveryFailureIsStructured ==
  \A r \in Procs :
    (run[r].pc = "done" /\ run[r].failedAt # "none") => run[r].result = ResultFailure

\* Index (from 0) of the first expired or invalid card of the page in display
\* order under newest-first; NULL if there is none.
FirstBadIndex(page) == IF FirstStop(page, now) = 0 THEN NULL ELSE FirstStop(page, now) - 1

\* C9 as stated: under newest-first order, when the scroll loop has ended and
\* the rendered listing holds a first expired or invalid card at index k,
\* scrollUntilExpiredOrEnd returns k and handler keeps exactly the extracted
\* items at indices [0, k).
C9_BoundaryIsFirstBadRendered ==
  \A r \in Procs :
    LET me == run[r]
        k  == FirstBadIndex(me.page)
    IN  (ORDER_NEWEST_FIRST /\ k # NULL) =>
          /\ me.pc = "extract" => me.stopAtCount = k
          /\ me.pc = "read" => me.items = SubSeq(me.page, 1, k)

\* C9 amended: under newest-first order, when the first expired or invalid
\* card, at index k, is among the cards a round examined, the function returns
\* exactly k, and handler keeps exactly the extracted items at indices [0, k);
\* a boundary is recorded in no other case.
C9_BoundaryIsFirstBadExamined ==
  \A r \in Procs :
    LET me == run[r]
        k  == FirstBadIndex(me.page)
    IN  ORDER_NEWEST_FIRST =>
          /\ (me.pc = "extract" /\ k # NULL /\ k < me.lastExamined) => me.stopAtCount = k
          /\ (me.pc = "extract" /\ (k = NULL \/ k >= me.lastExamined)) => me.stopAtCount = NULL
          /\ (me.pc = "read" /\ me.stopAtCount # NULL) =>
               /\ me.stopAtCount = k
               /\ me.items = SubSeq(me.page, 1, k)

\* C9 witness: the fence was the card at index 1 of a two-card listing and
\* the card before it was kept.
C9_Witness ==
  \E r \in Procs :
    /\ ORDER_NEWEST_FIRST
    /\ run[r].pc = "read"
    /\ run[r].stopAtCount = 1
    /\ Len(run[r].page) = 2
    /\ Len(run[r].items) = 1

C11_IdleStopAfterConsecutiveNoGrowth ==
  \A r \in Procs :
    LET me == run[r]
    IN  /\ (me.pc = "extract" /\ me.stop = "idle") =>
             /\ me.quietRounds = IDLE_AFTER_NO_GROWTH_ROUNDS
             /\ me.stopAtCount = NULL
        /\ me.pc = "wait" => me.quietRounds < IDLE_AFTER_NO_GROWTH_ROUNDS
        /\ (me.pc = "read" /\ me.stop = "idle") => me.items = me.page

\* C11 witness: the loop stopped by idle on a non-empty listing after more
\* rounds than the threshold, so some round before the streak saw growth.
C11_Witness ==
  \E r \in Procs :
    /\ run[r].pc = "extract"
    /\ run[r].stop = "idle"
    /\ run[r].rounds > IDLE_AFTER_NO_GROWTH_ROUNDS
    /\ Len(run[r].page) >= 2

\* C12: the loop begins a round only while fewer than MAX_SCROLL_ROUNDS rounds
\* have been performed, so it never performs more, and when it ends for that
\* reason exactly MAX_SCROLL_ROUNDS rounds were performed, whatever the
\* listing did.
C12_AtMostMaxRounds ==
  \A r \in Procs :
    LET me == run[r]
    IN  /\ me.rounds <= MAX_SCROLL_ROUNDS
        /\ me.pc = "scroll" => me.rounds < MAX_SCROLL_ROUNDS
        /\ (me.pc = "extract" /\ me.stop = "maxRounds") =>
             (me.rounds = MAX_SCROLL_ROUNDS /\ me.stopAtCount = NULL)

\* C12 witness: the loop ended at the round cap on a listing that grew to its
\* largest size and showed no expired or invalid cursor.
C12_Witness ==
  \E r \in Procs :
    /\ run[r].pc = "extract"
    /\ run[r].stop = "maxRounds"
    /\ run[r].rounds = MAX_SCROLL_ROUNDS
    /\ Len(run[r].page) = MaxCards

\* C13: between any two successive send attempts of the delivery loop the
\* 800 ms pacing sleep has run, whether the earlier attempt succeeded or failed.
C13_PacingBetweenAttempts ==
  \A r \in Procs :
    \A j \in 1..Len(run[r].attempts) :
      j < Len(run[r].attempts) => run[r].attempts[j].slept

\* C14: for every clock reading and every date-only deadline (midnight UTC of
\* date D), isExpiredByAlmaty is true exactly when D is strictly earlier than
\* the calendar date of the reading shifted by +5 hours, at every hour of the
\* day: a deadline of that date is not expired, one of the day before is.
C14_ExpiredIffEarlierAlmatyDate ==
  call.fn = "isExpiredByAlmaty" =>
    (call.value <=>
       call.deadline \div (24 * 60) < (call.at + 5 * 60) \div (24 * 60))

\* C14 witness: at 19:00 UTC, the first minute of a day at UTC+5, a deadline
\* of the day that has just ended there is found expired.
C14_Witness ==
  /\ call.fn = "isExpiredByAlmaty"
  /\ call.at % (24 * 60) = 19 * 60
  /\ call.deadline \div (24 * 60) = (call.at + 5 * 60) \div (24 * 60) - 1
  /\ call.value

\* C15: for every text DD.MM.YY, with or without the due marker before it,
\* whose day is in 1..31 and month in 1..12, parseDdMmYyToUTC returns midnight
\* UTC of the calendar date with that day, that month and the year 2000+YY
\* (YY < 70) or 1900+YY (YY >= 70); for every other text it returns null.
C15_ParseRecoversTheDate ==
  (call.fn = "parseDdMmYyToUTC" /\ call.returned) =>
    LET wellFormed == call.sep1 = "." /\ call.sep2 = "." /\ call.suffix = <<>>
        inRange    == call.d \in 1..31 /\ call.mo \in 1..12
        year       == IF call.y < 70 THEN 2000 + call.y ELSE 1900 + call.y
    IN  IF wellFormed /\ inRange
        THEN /\ call.value # NULL
             /\ call.value % (24 * 60) = 0
             /\ CivilFromMinutes(call.value) = [y |-> year, m0 |-> call.mo - 1, d |-> call.d]
        ELSE call.value = NULL

C17_BrowserClosedOnEveryExit ==
  \A r \in Procs :
    (run[r].pc = "done" /\ run[r].browser # "none") => run[r].closeCalls >= 1

\* C17 witness: a run in which the store write threw has returned, with
\* browser.close called once.
C17_Witness ==
  \E r \in Procs :
    /\ run[r].pc = "done"
    /\ run[r].failedAt = "write"
    /\ run[r].browser # "none"
    /\ run[r].closeCalls = 1

\* Number of the invocation's sends that succeeded.
NumOk(me) == Cardinality({ h \in 1..Len(me.attempts) : me.attempts[h].ok })

\* C18 as stated: a run whose delivery loop ran to its end and whose store
\* write succeeded returns the success result with posted equal to the number
\* of successful sends.
C18_SuccessAfterWrite ==
  \A r \in Procs :
    (run[r].pc = "done" /\ run[r].written /\ run[r].failedAt # "write") =>
      run[r].result = ResultPosted(NumOk(run[r]))

\* C18 amended: such a run returns the success result with posted equal to
\* the number of successful sends, whatever number of sends failed, provided
\* the browser.close that follows the write does not throw; if it throws the
\* run returns the failure result.
C18_SuccessAfterWriteAndClose ==
  \A r \in Procs :
    LET me == run[r]
    IN  /\ me.pc = "close" => me.posted = NumOk(me)
        /\ (me.pc = "done" /\ me.written /\ me.failedAt = "none") =>
             (me.result = ResultPosted(NumOk(me)) /\ me.result.ok)
        /\ (me.pc = "done" /\ me.written /\ me.failedAt = "close") =>
             me.result = ResultFailure

\* C18 witness: a run both of whose sends failed wrote the store and returned
\* the success result with posted 0.
C18_Witness ==
  \E r \in Procs :
    /\ run[r].pc = "done"
    /\ run[r].written
    /\ run[r].failedAt = "none"
    /\ Len(run[r].attempts) = 2
    /\ NumOk(run[r]) = 0
    /\ run[r].result = ResultPosted(0)

\* The round just performed examined the page as it still is: the loop is
\* about to scroll on, or it stopped at this round.
RoundJustExamined(me) ==
  me.pc = "wait" \/ (me.pc = "extract" /\ me.stop \in {"fence", "idle"})

\* C19: in every round, under either order, the cursors examined are exactly
\* the rendered cards no earlier round examined: no card is examined twice,
\* and after a round that finds no stop every rendered card has been examined.
C19_EachRenderedCardExaminedOnce ==
  \A r \in Procs :
    LET me == run[r]
    IN  /\ Elems(me.slice) \cap me.examinedBefore = {}
        /\ RoundJustExamined(me) =>
             Elems(me.slice) = (1..Len(me.page)) \ me.examinedBefore

\* C20: under oldest-first order no boundary is ever recorded and the function
\* returns null; a round that examines an expired or invalid cursor ends the
\* loop, so the loop goes on only when no examined cursor was one; and handler
\* keeps every extracted item.
C20_OldestFirstNeverTrims ==
  \A r \in Procs :
    LET me == run[r]
    IN  ~ORDER_NEWEST_FIRST =>
          /\ me.stopAtCount = NULL
          /\ me.pc = "wait" =>
               \A q \in Elems(me.slice) : ~ExpiredOrInvalid(me.page[q], now)
          /\ (me.pc = "extract" /\ me.stop = "fence") =>
               \E q \in Elems(me.slice) : ExpiredOrInvalid(me.page[q], now)
          /\ me.pc = "read" => me.items = me.page

\* C20 witness: under oldest-first order the loop stopped at an expired or
\* invalid cursor of a two-card listing and handler kept both items.
C20_Witness ==
  \E r \in Procs :
    /\ ~ORDER_NEWEST_FIRST
    /\ run[r].pc = "read"
    /\ run[r].stop = "fence"
    /\ Len(run[r].page) = 2
    /\ run[r].items = run[r].page

\* The invocation's writeSeenSet has returned.
WroteStore(me) == me.written /\ me.failedAt # "write"

\* A link sent successfully by an invocation whose write succeeded is not in
\* the blob.
LostUpdate ==
  \E r \in Procs :
    WroteStore(run[r]) /\ \E l \in OkLinks(run[r]) : l \notin Elems(store.arr)

\* A successful writeSeenSet of invocation r replaces the blob with the Set r
\* holds: the snapshot r loaded and the links r sent, whatever the blob held.
StoreReplacedBy(r) ==
  (run[r].pc = "write" /\ run'[r].pc = "close") =>
    /\ store' = writeSeenSet(run[r].seen)
    /\ Elems(store'.arr) = Elems(run[r].loadedSet) \cup OkLinks(run[r])

\* C21: every successful writeSeenSet replaces the whole stored array with the
\* writing run's own loaded snapshot plus its own successful links, so a link
\* sent successfully by a run whose write succeeded can be missing from the
\* blob only if two runs overlapped, both having called readSeenSet before
\* either called writeSeenSet; in interleavings where the runs follow one
\* another no such link is ever missing.
C21_LostUpdateOnlyWhenRunsOverlap ==
  /\ [](LostUpdate => overlapped)
  /\ [][\A r \in Procs : StoreReplacedBy(r)]_vars

\* C21 witness: two runs read the blob before either wrote it, both sent a
\* link and wrote with success, and the link of the first writer, which the
\* second writer had not loaded, is gone from the blob.
C21_Witness ==
  \E r, q \in Procs :
    /\ r # q
    /\ overlapped
    /\ WroteStore(run[r]) /\ WroteStore(run[q])
    /\ run[r].pc = "done" /\ run[q].pc = "done"
    /\ OkLinks(run[q]) # {}
    /\ \E l \in OkLinks(run[r]) :
         l \notin Elems(run[q].loadedSet) /\ l \notin Elems(store.arr)

\* The invocation is past the filter chain and has not returned.
PastFilter(me) == me.pc \in {"closeEmpty", "send", "write", "close"}

\* The invocation took the early return of line 277: it loaded the store, made
\* no call of writeSeenSet, and nothing threw before browser.close.
TookEarlyReturn(me) ==
  \/ me.pc = "closeEmpty"
  \/ me.pc \in {"catch", "done"} /\ me.loaded /\ ~me.written /\ me.failedAt \in {"none", "close"}

\* What an invocation that took the early return has done: no call of
\* postToTelegram, no call of writeSeenSet, and the blob reads as it was loaded.
NothingSentNothingWritten(me) ==
  /\ me.attempts = <<>>
  /\ ~me.written
  /\ readSeenSet(store) = me.loadedSet

\* A step taken by invocation r from the filter chain on, its filtered list
\* empty, leaves the blob as it is.
EmptyRunKeepsStore(r) ==
  (run[r].pc = "filter" \/ (TookEarlyReturn(run[r]) /\ run[r].pc # "done")) =>
    (run'[r].pc \in {"closeEmpty", "catch", "done"} => store' = store)

\* C22 as stated: a run whose filtered list is empty calls neither
\* postToTelegram nor writeSeenSet, leaves the store as loaded, and returns the
\* success result with the no-new-tasks message.
C22_EmptyFilteredReturnsNoNew ==
  \A r \in Procs :
    LET me == run[r]
    IN  (TookEarlyReturn(me) /\ me.pc = "done") =>
          (NothingSentNothingWritten(me) /\ me.result = ResultNoNew)

\* C22 amended: when filtered is empty the run goes to the early return and
\* nowhere else, calls neither postToTelegram nor writeSeenSet and leaves the
\* blob exactly as it was loaded; it returns the success result with the
\* no-new-tasks message provided browser.close at line 278 does not throw, and
\* the failure result if it throws.
C22_EmptyFilteredLeavesStore ==
  /\ [](\A r \in Procs :
         LET me == run[r]
         IN  /\ (PastFilter(me) /\ me.filtered = <<>>) => me.pc = "closeEmpty"
             /\ TookEarlyReturn(me) => NothingSentNothingWritten(me)
             /\ (TookEarlyReturn(me) /\ me.pc = "done") =>
                  me.result = IF me.failedAt = "close" THEN ResultFailure ELSE ResultNoNew)
  /\ [][\A r \in Procs : EmptyRunKeepsStore(r)]_vars

\* C22 witness: a second run found every link of the listing already in the
\* store, returned the no-new-tasks result without a send or a write, and the
\* store still holds what the first run wrote.
C22_Witness ==
  \E r \in Procs :
    /\ run[r].pc = "done"
    /\ TookEarlyReturn(run[r])
    /\ run[r].result = ResultNoNew
    /\ run[r].loadedSet # <<>>
    /\ store = writeSeenSet(run[r].loadedSet)
    /\ run[r].attempts = <<>>

====
